---- MODULE Spec2Model ----
(***************************************************************************)
(* Swiss tournament simulator (src/src/SwissTournamentSimulator.jsx).      *)
(*                                                                         *)
(* A player array is a function 0..N-1 -> player record, as the JavaScript *)
(* array is.  A reference to a player object is the position the object    *)
(* holds in its universe's array (arrays are never reordered, only their   *)
(* sorted copies are), so `p.points` is playerScores[p].points read at the *)
(* moment of the read.  opponentWinPercentage is kept as an exact fraction *)
(* <<numerator, denominator>> in lowest terms.  A roll is a whole number   *)
(* of [0, 100).                                                            *)
(***************************************************************************)
EXTENDS Integers, Sequences, FiniteSets, TLC

\* ---------------------------------------------------------------- bounds
MaxPlayers == 6
MaxRounds == 4
MaxSimulations == 2
\* upper bound on players * rounds * trials of one configuration
MaxPlayerRounds == 12

\* single calls of pairPlayers: number of players
MaxPairPlayers == 6
\* single calls of isSafeForCut: number of players, cut size
MaxSafePlayers == 6
MaxCut == 4

\* draw chance is clamped to [0, 100]; Math.random() * 100 is below 100
MaxDrawChance == 100
RollLimit == 100

\* default draw chance of the form (useState(5))
DrawChance == 5

\* both cuts are analysed, as the form starts (useState(true))
AnalyzeTop4 == TRUE
AnalyzeTop8 == TRUE

\* the `null` of a bye pairing / of a universe that is not analysed
Null == -1

\* ------------------------------------------------------------- arithmetic
RECURSIVE GCD(_, _)
GCD(a, b) == IF b = 0 THEN a ELSE GCD(b, a % b)

\* a fraction <<n, d>> (d > 0) in lowest terms
Frac(n, d) == IF n = 0 THEN <<0, 1>> ELSE <<n \div GCD(n, d), d \div GCD(n, d)>>

FracAdd(x, y) == Frac(x[1] * y[2] + y[1] * x[2], x[2] * y[2])

FracLess(x, y) == x[1] * y[2] < y[1] * x[2]

\* mutant of HalfUp: Math.floor(count / 2)
HalfDown(count) == count \div 2

\* Math.floor((count + 1) / 2)
HalfUp(count) == (count + 1) \div 2

RECURSIVE SumSeq(_)
SumSeq(s) == IF s = <<>> THEN 0 ELSE Head(s) + SumSeq(Tail(s))

RECURSIVE Repeat(_, _)
Repeat(x, n) == IF n <= 0 THEN <<>> ELSE <<x>> \o Repeat(x, n - 1)

SeqMin(S) == CHOOSE x \in S : \A y \in S : x <= y

SetMax(S) == CHOOSE x \in S : \A y \in S : x >= y

\* the numbers of S as a list, highest first
RECURSIVE DescSeq(_)
DescSeq(S) == IF S = {} THEN <<>> ELSE <<SetMax(S)>> \o DescSeq(S \ {SetMax(S)})

\* ------------------------------------------------------------ player state
\* { id: j, points: 0, wins: 0, losses: 0, draws: 0, opponents: [], opponentWinPercentage: 0 }
NewPlayer(j) ==
    [id |-> j, points |-> 0, wins |-> 0, losses |-> 0, draws |-> 0,
     opponents |-> <<>>, opponentWinPercentage |-> <<0, 1>>]

\* Array.from({ length: n }, (_, j) => ...)
NewPlayers(n) == [j \in 0 .. n - 1 |-> NewPlayer(j)]

Length(arr) == Cardinality(DOMAIN arr)

\* the array as the sequence of its object references, in array order
Refs(arr) == [k \in 1 .. Length(arr) |-> k - 1]

\* comparator (points descending, id ascending) of pairPlayers and isSafeForCut
ByPointsThenId(a, b) ==
    IF b.points # a.points THEN b.points < a.points ELSE a.id < b.id

\* ------------------------------------------------- intentional draw safety
\* scores sorted descending (numeric sort of a list of numbers)
SortDesc(scores) == SortSeq(scores, LAMBDA a, b : a > b)

\* mutant of ProjectRound: every score gains 3 (no Swiss constraint)
ProjectRoundAllWin(current) == [k \in 1 .. Len(current) |-> current[k] + 3]

\* one iteration of the Swiss-constrained projection: per score group, highest
\* score first, winners = floor((count+1)/2) scores gain 3 and the rest stay
ProjectRound(current) ==
    LET keys == DescSeq({current[k] : k \in 1 .. Len(current)})
        count(s) == Cardinality({k \in 1 .. Len(current) : current[k] = s})
        group(s) == Repeat(s + 3, HalfUp(count(s))) \o Repeat(s, count(s) - HalfUp(count(s)))
        RECURSIVE Cat(_)
        Cat(ks) == IF ks = <<>> THEN <<>> ELSE group(Head(ks)) \o Cat(Tail(ks))
    IN  Cat(keys)

RECURSIVE ProjectRounds(_, _)
ProjectRounds(current, rounds) ==
    IF rounds <= 0 THEN current ELSE ProjectRounds(ProjectRound(current), rounds - 1)

\* index read by `return current[6]`
SeventhIndex == 6

\* mutant of maxSeventhAfterNRounds: the seventh of the current scores
maxSeventhUnprojected(scores, rounds) ==
    IF Len(scores) < 7 THEN -1
    ELSE SortDesc(scores)[SeventhIndex + 1]

maxSeventhAfterNRounds(scores, rounds) ==
    IF Len(scores) < 7 THEN -1
    ELSE SortDesc(ProjectRounds(scores, rounds))[SeventhIndex + 1]

isSafeEarlierRound(player, opponent, allPlayers, cutSize, playerScoreAfterDraw, roundsRemaining) ==
    LET threats == {p \in DOMAIN allPlayers :
                        /\ allPlayers[p].id # allPlayers[player].id
                        /\ allPlayers[p].id # allPlayers[opponent].id
                        /\ allPlayers[p].points + 3 * (1 + roundsRemaining) > playerScoreAfterDraw}
        scores == {allPlayers[p].points : p \in threats}
        count(s) == Cardinality({p \in threats : allPlayers[p].points = s})
        groups == DescSeq(scores)
        realisticThreats == SumSeq([k \in 1 .. Len(groups) |-> HalfUp(count(groups[k]))])
    IN  realisticThreats < cutSize

\* mutant of Others: the filter without the sort
OthersUnsorted(player, opponent, allPlayers) ==
    SelectSeq(Refs(allPlayers),
              LAMBDA p : /\ allPlayers[p].id # allPlayers[player].id
                         /\ allPlayers[p].id # allPlayers[opponent].id)

\* allPlayers without player and opponent, sorted by (points desc, id asc)
Others(player, opponent, allPlayers) ==
    SortSeq(SelectSeq(Refs(allPlayers),
                      LAMBDA p : /\ allPlayers[p].id # allPlayers[player].id
                                 /\ allPlayers[p].id # allPlayers[opponent].id),
            LAMBDA a, b : ByPointsThenId(allPlayers[a], allPlayers[b]))

\* mutant of TooFewOthers: as many others as the cut is large are too few
TooFewOthersInclusive(others, cut) == Len(others) <= cut

\* others.length < cut
TooFewOthers(others, cut) == Len(others) < cut

\* "true" / "false", or "TypeError" when others[cut - 2] is undefined and its
\* .points is read
isSafeForCut(player, opponent, allPlayers, cut, currentRound, totalRounds) ==
    LET playerScoreAfterDraw == allPlayers[player].points + 1
        roundsRemaining == totalRounds - currentRound
        others == Others(player, opponent, allPlayers)
        bool(b) == IF b THEN "true" ELSE "false"
    IN  IF TooFewOthers(others, cut) THEN "true"
        ELSE IF cut - 2 < 0 \/ cut - 2 >= Len(others) THEN "TypeError"
        ELSE LET seventhBestOtherPoints == allPlayers[others[cut - 2 + 1]].points
             IN  IF roundsRemaining = 0
                 THEN bool(playerScoreAfterDraw > seventhBestOtherPoints + 3)
                 ELSE IF roundsRemaining = 1
                 THEN bool(allPlayers[player].points + 2 >
                           maxSeventhAfterNRounds([k \in 1 .. Len(others) |->
                                                      allPlayers[others[k]].points], 2))
                 ELSE bool(isSafeEarlierRound(player, opponent, allPlayers, cut,
                                              playerScoreAfterDraw, roundsRemaining))

\* ------------------------------------------------------------------ pairing
\* mutant of FreeAfter: a player met before is passed over
FreeAfterNoRematch(playerScores, sorted, i, used) ==
    {j \in i + 1 .. Len(sorted) :
        /\ playerScores[sorted[j]].id \notin used
        /\ \A k \in 1 .. Len(playerScores[sorted[i]].opponents) :
              playerScores[sorted[i]].opponents[k] # playerScores[sorted[j]].id}

\* mutant of FreeAfter: only the last position that is not used
FreeAfterLast(playerScores, sorted, i, used) ==
    LET free == {j \in i + 1 .. Len(sorted) : playerScores[sorted[j]].id \notin used}
    IN  IF free = {} THEN {} ELSE {SetMax(free)}

\* the positions j > i of the inner loop with !used.has(sorted[j].id)
FreeAfter(playerScores, sorted, i, used) ==
    {j \in i + 1 .. Len(sorted) : playerScores[sorted[j]].id \notin used}

RECURSIVE PairScan(_, _, _, _, _)
PairScan(playerScores, sorted, i, used, pairs) ==
    IF i > Len(sorted) THEN [pairs |-> pairs, used |-> used]
    ELSE IF playerScores[sorted[i]].id \in used
    THEN PairScan(playerScores, sorted, i + 1, used, pairs)
    ELSE LET free == FreeAfter(playerScores, sorted, i, used)
         IN  IF free = {}
             THEN PairScan(playerScores, sorted, i + 1, used, pairs)
             ELSE PairScan(playerScores, sorted, i + 1,
                           used \cup {playerScores[sorted[i]].id,
                                      playerScores[sorted[SeqMin(free)]].id},
                           Append(pairs, <<sorted[i], sorted[SeqMin(free)]>>))

\* mutant of PairOrder: the copy is left in array order
PairOrderUnsorted(playerScores) == Refs(playerScores)

\* [...playerScores].sort(...) of pairPlayers
PairOrder(playerScores) ==
    SortSeq(Refs(playerScores),
            LAMBDA a, b : ByPointsThenId(playerScores[a], playerScores[b]))

pairPlayers(playerScores) ==
    LET sorted == PairOrder(playerScores)
        scan == PairScan(playerScores, sorted, 1, {}, <<>>)
        unused == {k \in 1 .. Len(sorted) : playerScores[sorted[k]].id \notin scan.used}
    IN  IF Cardinality(scan.used) < Len(sorted)
        THEN Append(scan.pairs, <<sorted[SeqMin(unused)], Null>>)
        ELSE scan.pairs

\* -------------------------------------------------------------- one match
\* mutant of RollResult: a roll equal to the draw chance still draws
RollResultInclusive(player1, player2, drawPercent, rand) ==
    IF rand <= drawPercent
    THEN [winner |-> Null, loser |-> Null, draw |-> TRUE, bye |-> FALSE]
    ELSE IF 2 * rand < 100 + drawPercent
    THEN [winner |-> player1, loser |-> player2, draw |-> FALSE, bye |-> FALSE]
    ELSE [winner |-> player2, loser |-> player1, draw |-> FALSE, bye |-> FALSE]

\* rand < drawPercent / rand < 50 + drawPercent / 2 (both sides doubled)
RollResult(player1, player2, drawPercent, rand) ==
    IF rand < drawPercent
    THEN [winner |-> Null, loser |-> Null, draw |-> TRUE, bye |-> FALSE]
    ELSE IF 2 * rand < 100 + drawPercent
    THEN [winner |-> player1, loser |-> player2, draw |-> FALSE, bye |-> FALSE]
    ELSE [winner |-> player2, loser |-> player1, draw |-> FALSE, bye |-> FALSE]

\* mutant of IDWindow: the window is one round too wide
IDWindowThree(useID, currentRound, totalRounds) ==
    useID /\ totalRounds > 0 /\ totalRounds - currentRound <= 3

\* the condition under which simulateMatch asks isSafeForCut
IDWindow(useID, currentRound, totalRounds) ==
    useID /\ totalRounds > 0 /\ totalRounds - currentRound <= 2

\* both isSafeForCut answers of simulateMatch combined (p1Safe && p2Safe)
BothSafe(p1Safe, p2Safe) == p1Safe = "true" /\ p2Safe = "true"

\* The result object, with two fields the code does not have: `intentional`
\* tells the return of the intentional-draw branch from the rolled draw, `threw`
\* that isSafeForCut raised the TypeError instead of returning.
simulateMatch(player1, player2, drawPercent, useID, allPlayers, currentRound, totalRounds, cutSize, rand) ==
    LET plain(r) == r @@ [intentional |-> FALSE, threw |-> FALSE]
        p1Safe == isSafeForCut(player1, player2, allPlayers, cutSize, currentRound, totalRounds)
        p2Safe == isSafeForCut(player2, player1, allPlayers, cutSize, currentRound, totalRounds)
    IN  IF player2 = Null
        THEN plain([winner |-> player1, loser |-> Null, draw |-> FALSE, bye |-> TRUE])
        ELSE IF IDWindow(useID, currentRound, totalRounds) /\ "TypeError" \in {p1Safe, p2Safe}
        THEN [winner |-> Null, loser |-> Null, draw |-> FALSE, bye |-> FALSE,
              intentional |-> FALSE, threw |-> TRUE]
        ELSE IF IDWindow(useID, currentRound, totalRounds) /\ BothSafe(p1Safe, p2Safe)
        THEN [winner |-> Null, loser |-> Null, draw |-> TRUE, bye |-> FALSE,
              intentional |-> TRUE, threw |-> FALSE]
        ELSE plain(RollResult(player1, player2, drawPercent, rand))

\* ------------------------------------------------------------------ ranking
RECURSIVE FracSum(_)
FracSum(s) == IF s = <<>> THEN <<0, 1>> ELSE FracAdd(Head(s), FracSum(Tail(s)))

\* (opponent.wins + opponent.draws * 0.5) / totalGames, 0 without games or
\* when playerScores[oppId] is undefined
MatchWinPercentage(playerScores, oppId) ==
    IF oppId \notin DOMAIN playerScores THEN <<0, 1>>
    ELSE LET opponent == playerScores[oppId]
             totalGames == opponent.wins + opponent.losses + opponent.draws
         IN  IF totalGames > 0
             THEN Frac(2 * opponent.wins + opponent.draws, 2 * totalGames)
             ELSE <<0, 1>>

OpponentWinPercentage(playerScores, player) ==
    IF Len(player.opponents) > 0
    THEN LET pcts == [k \in 1 .. Len(player.opponents) |->
                         MatchWinPercentage(playerScores, player.opponents[k])]
             sum == FracSum(pcts)
         IN  Frac(sum[1], sum[2] * Len(pcts))
    ELSE <<0, 1>>

\* mutant of RankBefore: the tiebreaker sorts ascending
RankBeforeOwpAscending(a, b) ==
    IF b.points # a.points THEN b.points < a.points
    ELSE IF b.opponentWinPercentage # a.opponentWinPercentage
    THEN FracLess(a.opponentWinPercentage, b.opponentWinPercentage)
    ELSE a.id < b.id

\* comparator of rankPlayers: points desc, opponentWinPercentage desc, id asc
RankBefore(a, b) ==
    IF b.points # a.points THEN b.points < a.points
    ELSE IF b.opponentWinPercentage # a.opponentWinPercentage
    THEN FracLess(b.opponentWinPercentage, a.opponentWinPercentage)
    ELSE a.id < b.id

\* mutant of WithTiebreakers: the array itself is sorted into ranked order
SortedInPlace(playerScores) ==
    LET updated == [j \in DOMAIN playerScores |->
                       [playerScores[j] EXCEPT !.opponentWinPercentage =
                                                   OpponentWinPercentage(playerScores, playerScores[j])]]
        order == SortSeq(Refs(updated), LAMBDA a, b : RankBefore(updated[a], updated[b]))
    IN  [j \in DOMAIN playerScores |-> updated[order[j + 1]]]

\* the forEach of rankPlayers: every opponentWinPercentage set, nothing else
WithTiebreakers(playerScores) ==
    [j \in DOMAIN playerScores |->
        [playerScores[j] EXCEPT !.opponentWinPercentage =
                                    OpponentWinPercentage(playerScores, playerScores[j])]]

\* players: the input array after the call; ranked: the returned array (the
\* player objects in ranked order)
rankPlayers(playerScores) ==
    LET updated == WithTiebreakers(playerScores)
        order == SortSeq(Refs(updated), LAMBDA a, b : RankBefore(updated[a], updated[b]))
    IN  [players |-> updated, ranked |-> [k \in 1 .. Len(order) |-> updated[order[k]]]]

\* ---------------------------------------------------------------- one round
\* mutant of OutcomeKey: the key keeps the order of the request
OutcomeKeyAsRequested(id1, id2) == <<id1, id2>>

\* canonical key of getMatchOutcome: the two ids, lower first
OutcomeKey(id1, id2) == IF id1 < id2 THEN <<id1, id2>> ELSE <<id2, id1>>

\* the keys processRound will ask getMatchOutcome for
RoundKeys(playerScores, pairs) ==
    {OutcomeKey(playerScores[pairs[k][1]].id, playerScores[pairs[k][2]].id) :
        k \in {i \in 1 .. Len(pairs) : pairs[i][2] # Null}}

\* mutant of CachedKeys: has(key) never holds, every request generates a roll
CachedKeysNone(cache, keys) == {}

\* the requested keys for which roundOutcomes.has(key) holds
CachedKeys(cache, keys) == keys \cap DOMAIN cache

\* roundOutcomes after the requests of a processRound; generated[key] is the
\* value Math.random() * 100 yields for a key that is requested and not cached
CacheAfter(cache, keys, generated) ==
    [key \in DOMAIN cache \cup keys |->
        IF key \in DOMAIN generated THEN generated[key] ELSE cache[key]]

\* mutant of ApplyBye: the bye credits the points and forgets the win
ApplyByeNoWin(playerScores, p1) ==
    LET i == playerScores[p1].id
    IN  [playerScores EXCEPT ![i].points = @ + 3]

\* mutant of ApplyBye: the bye is entered in the opponents list as a match
ApplyByeAsMatch(playerScores, p1) ==
    LET i == playerScores[p1].id
    IN  [playerScores EXCEPT ![i].points = @ + 3, ![i].wins = @ + 1,
                             ![i].opponents = Append(@, i)]

ApplyBye(playerScores, p1) ==
    LET i == playerScores[p1].id
    IN  [playerScores EXCEPT ![i].points = @ + 3, ![i].wins = @ + 1]

\* mutant of ApplyDraw: only the first player gets the point of the draw
ApplyDrawFirstOnly(playerScores, p1, p2) ==
    LET i == playerScores[p1].id
        j == playerScores[p2].id
    IN  [playerScores EXCEPT ![i].points = @ + 1,
                             ![i].draws = @ + 1, ![j].draws = @ + 1,
                             ![i].opponents = Append(@, j),
                             ![j].opponents = Append(@, i)]

ApplyDraw(playerScores, p1, p2) ==
    LET i == playerScores[p1].id
        j == playerScores[p2].id
    IN  [playerScores EXCEPT ![i].points = @ + 1, ![j].points = @ + 1,
                             ![i].draws = @ + 1, ![j].draws = @ + 1,
                             ![i].opponents = Append(@, j),
                             ![j].opponents = Append(@, i)]

\* mutant of ApplyDecisive: the loss is not counted
ApplyDecisiveNoLoss(playerScores, winner, loser) ==
    LET w == playerScores[winner].id
        l == playerScores[loser].id
    IN  [playerScores EXCEPT ![w].points = @ + 3, ![w].wins = @ + 1,
                             ![w].opponents = Append(@, l),
                             ![l].opponents = Append(@, w)]

ApplyDecisive(playerScores, winner, loser) ==
    LET w == playerScores[winner].id
        l == playerScores[loser].id
    IN  [playerScores EXCEPT ![w].points = @ + 3, ![w].wins = @ + 1,
                             ![l].losses = @ + 1,
                             ![w].opponents = Append(@, l),
                             ![l].opponents = Append(@, w)]

ApplyResult(playerScores, p1, p2, result) ==
    IF p2 = Null THEN ApplyBye(playerScores, p1)
    ELSE IF result.draw THEN ApplyDraw(playerScores, p1, p2)
    ELSE ApplyDecisive(playerScores, result.winner, result.loser)

\* pairs.forEach of processRound from pairing k on.  Every pairing reads the
\* array as the pairings before it left it.  log: one entry per pairing, with
\* the array as it was when the pairing was reached.
RECURSIVE ProcessPairs(_, _, _, _, _, _, _, _, _, _)
ProcessPairs(playerScores, pairs, k, drawPercent, useID, cutSize, round, numRounds, outcomes, log) ==
    IF k > Len(pairs) THEN [players |-> playerScores, log |-> log, threw |-> FALSE]
    ELSE LET p1 == pairs[k][1]
             p2 == pairs[k][2]
             rand == IF p2 = Null THEN 0
                     ELSE outcomes[OutcomeKey(playerScores[p1].id, playerScores[p2].id)]
             result == simulateMatch(p1, p2, drawPercent, useID, playerScores,
                                     round, numRounds, cutSize, rand)
             entry == [p1 |-> p1, p2 |-> p2, rand |-> rand, result |-> result,
                       round |-> round, before |-> playerScores]
         IN  IF result.threw
             THEN [players |-> playerScores, log |-> Append(log, entry), threw |-> TRUE]
             ELSE ProcessPairs(ApplyResult(playerScores, p1, p2, result), pairs, k + 1,
                               drawPercent, useID, cutSize, round, numRounds, outcomes,
                               Append(log, entry))

processRound(playerScores, pairs, drawPercent, useID, cutSize, round, numRounds, outcomes) ==
    ProcessPairs(playerScores, pairs, 1, drawPercent, useID, cutSize, round, numRounds,
                 outcomes, <<>>)

\* ------------------------------------------------------------ statistics
\* the for loop of the bubble count, from row i (1-based) on: rows with the
\* points of the cutoff row are counted until the first row that differs
RECURSIVE BubbleFrom(_, _, _)
BubbleFrom(tournamentResult, cutoffPoints, i) ==
    IF i > Len(tournamentResult) THEN 0
    ELSE IF tournamentResult[i].points = cutoffPoints
    THEN 1 + BubbleFrom(tournamentResult, cutoffPoints, i + 1)
    ELSE 0

\* mutant of BubbleSize: the count starts with the cutoff row itself
BubbleSizeFromCutoff(tournamentResult, cut) ==
    IF Len(tournamentResult) >= cut
    THEN BubbleFrom(tournamentResult, tournamentResult[cut].points, cut)
    ELSE 0

\* top4Bubble (cut = 4) and top8Bubble (cut = 8) of one tournamentResult
BubbleSize(tournamentResult, cut) ==
    IF Len(tournamentResult) >= cut
    THEN BubbleFrom(tournamentResult, tournamentResult[cut].points, cut + 1)
    ELSE 0

\* distributionCounts: how many samples have each value that occurs
Distribution(samples) ==
    [v \in {samples[t] : t \in 1 .. Len(samples)} |->
        Cardinality({t \in 1 .. Len(samples) : samples[t] = v})]

\* the bubble part of processSimulationResults: the samples of both cuts, one
\* per trial, and their distributions (the percentages are the counts scaled)
processSimulationResults(allSimResults, includeTop4, includeTop8) ==
    LET top4Bubbles == IF includeTop4
                       THEN [t \in 1 .. Len(allSimResults) |-> BubbleSize(allSimResults[t], 4)]
                       ELSE <<>>
        top8Bubbles == IF includeTop8
                       THEN [t \in 1 .. Len(allSimResults) |-> BubbleSize(allSimResults[t], 8)]
                       ELSE <<>>
    IN  [top4Bubbles |-> top4Bubbles, top8Bubbles |-> top8Bubbles,
         top4 |-> Distribution(top4Bubbles), top8 |-> Distribution(top8Bubbles)]

\* a number inside a record string, as split('-').map(Number) reads it back:
\* a negative number prints with a leading '-', which splits off an empty
\* field, and Number('') is 0
Field(n) == IF n < 0 THEN <<0, -n>> ELSE <<n>>

\* a record string is modelled by its fields: `${wins}-${losses}-${draws}`,
\* or `${wins}-${losses}` for a player without draws
getRecordString(player) ==
    IF player.draws > 0
    THEN Field(player.wins) \o Field(player.losses) \o Field(player.draws)
    ELSE Field(player.wins) \o Field(player.losses)

\* parts[i] || 0 (1-based here)
Part(parts, i) == IF i <= Len(parts) THEN parts[i] ELSE 0

\* null, the result of isTargetRecord for a record of no target pattern
NoRecord == <<>>

\* mutant of isTargetRecord: every record is kept as it is
isTargetRecordAnyShape(record) ==
    IF Part(record, 3) > 0
    THEN Field(Part(record, 1)) \o Field(Part(record, 2)) \o Field(Part(record, 3))
    ELSE Field(Part(record, 1)) \o Field(Part(record, 2))

\* the canonical pattern of a record string, or null
isTargetRecord(record) ==
    LET wins == Part(record, 1)
        losses == Part(record, 2)
        draws == Part(record, 3)
    IN  IF losses = 0 /\ draws = 0 THEN Field(wins) \o <<0>>
        ELSE IF losses = 0 /\ draws = 1 THEN Field(wins) \o <<0, 1>>
        ELSE IF losses = 1 /\ draws = 0 THEN Field(wins) \o <<1>>
        ELSE IF losses = 1 /\ draws = 1 THEN Field(wins) \o <<1, 1>>
        ELSE IF losses = 2 /\ draws = 0 THEN Field(wins) \o <<2>>
        ELSE NoRecord

\* negative when record a is better than record b, 0 when they are the same
compareRecords(a, b) ==
    LET aPoints == Part(a, 1) * 3 + Part(a, 3)
        bPoints == Part(b, 1) * 3 + Part(b, 3)
    IN  IF bPoints # aPoints THEN bPoints - aPoints
        ELSE IF Part(a, 2) # Part(b, 2) THEN Part(a, 2) - Part(b, 2)
        ELSE Part(a, 3) - Part(b, 3)

\* the five thresholds of a tournament of numRounds rounds
targetRecords(numRounds) ==
    << Field(numRounds) \o <<0>>,
       Field(numRounds - 1) \o <<0, 1>>,
       Field(numRounds - 1) \o <<1>>,
       Field(numRounds - 2) \o <<1, 1>>,
       Field(numRounds - 2) \o <<2>> >>

\* tournamentResult.filter(...).length: the rows whose record has a target
\* pattern that is the threshold record or better
RecordOrBetter(tournamentResult, record) ==
    Cardinality({i \in 1 .. Len(tournamentResult) :
        LET playerRecord == getRecordString(tournamentResult[i])
            targetRecord == isTargetRecord(playerRecord)
        IN  targetRecord # NoRecord /\ compareRecords(targetRecord, record) <= 0})

\* mutant of RecordSamples: every count is a sample
RecordSamplesAll(recordAndBetterCounts) == recordAndBetterCounts

\* the counts that enter the distribution of a threshold: if (count > 0)
RecordSamples(recordAndBetterCounts) ==
    SelectSeq(recordAndBetterCounts, LAMBDA count : count > 0)

\* the record part of processSimulationResults: for each threshold the count
\* of every trial and the distribution of the counts; the threshold is in
\* processedResults (shown) only with a distribution that is not empty
RecordAnalysis(allSimResults, numSimulations, numRounds) ==
    [t \in 1 .. 5 |->
        LET record == targetRecords(numRounds)[t]
            recordAndBetterCounts ==
                [s \in 1 .. Len(allSimResults) |-> RecordOrBetter(allSimResults[s], record)]
            distribution == Distribution(RecordSamples(recordAndBetterCounts))
        IN  [record |-> record,
             recordAndBetterCounts |-> recordAndBetterCounts,
             distribution |-> distribution,
             shown |-> DOMAIN distribution # {},
             numSimulations |-> numSimulations]]

\* mutant of TopIds: the ids of all rows
TopIdsAll(result, k) == {result[i].id : i \in 1 .. Len(result)}

\* new Set(result.slice(0, k).map(p => p.id))
TopIds(result, k) ==
    {result[i].id : i \in 1 .. (IF Len(result) < k THEN Len(result) ELSE k)}

\* top4Discrepancy / top8Discrepancy of one trial
Discrepancy(standardResult, idResult, k) ==
    Cardinality({playerId \in TopIds(standardResult, k) : playerId \notin TopIds(idResult, k)})

\* top4DiscrepancyCounts / top8DiscrepancyCounts and their distribution
DiscrepancyStats(standardResults, idResults, k) ==
    LET counts == [t \in 1 .. Len(standardResults) |->
                      Discrepancy(standardResults[t], idResults[t], k)]
    IN  [counts |-> counts, distribution |-> Distribution(counts)]

\* ------------------------------------------------------------- the batch
\* runSimulations: the trials of one batch, round by round, the universes
\* (no-ID, ID for a top-4 cut, ID for a top-8 cut) in lockstep.
VARIABLES
    config,         \* clampedPlayers, clampedRounds, clampedSimulations, analyzeTop4/8
    sim,            \* the trial being run (i + 1)
    round,          \* the round being played, 1-based
    pc,             \* "pair", then the universe whose processRound is next, "rank", "done"
    players,        \* players_standard, players_id4, players_id8
    pairs,          \* pairs_standard, pairs_id4, pairs_id8 of the round
    roundOutcomes,  \* the round's roll cache (canonical key -> roll)
    finalResults,   \* finalStandardResults, finalId4Results, finalId8Results
    matchLog,       \* history: per universe, the pairings of its last processRound
    idPlayers,      \* history: per universe, ids that drew intentionally this trial
    idRounds,       \* history: per universe, rounds of this trial with an intentional draw
    stats,          \* bubbleStats of the universes and discrepancyStats, once the batch is over
    tape,           \* the values Math.random() * 100 yields, in order (<<>>: any value)
    drawn,          \* how many values of the tape have been taken (modulo its length)
    run,            \* which run of the batch this is (1: the first)
    previous,       \* history: finalResults and stats of the run before this one
    input,          \* arguments of a single function call (specifications of one function)
    called,         \* whether that call has been made
    output          \* what the call returned

seedVars == <<tape, run, previous>>

batchVars == <<config, sim, round, pc, players, pairs, roundOutcomes, finalResults,
               matchLog, idPlayers, idRounds, stats, drawn, seedVars>>

callVars == <<input, called, output>>

vars == <<batchVars, callVars>>

Universes == {"standard", "id4", "id8"}

\* processRound(players_standard, ..., false, 0, ...), (players_id4, ..., true, 4, ...),
\* (players_id8, ..., true, 8, ...)
UseID(u) == u # "standard"

CutSize(u) == IF u = "id4" THEN 4 ELSE IF u = "id8" THEN 8 ELSE 0

Analysed(c, u) ==
    \/ u = "standard"
    \/ u = "id4" /\ c.analyzeTop4
    \/ u = "id8" /\ c.analyzeTop8

\* rolls that Math.random() * 100 is modelled to yield: one that draws (when
\* the draw chance is positive), the lowest one that lets the first player
\* win, and one that lets the second player win
Rolls == {0, DrawChance, 99}

Configs ==
    {c \in [numPlayers : 2 .. MaxPlayers, numRounds : 1 .. MaxRounds,
            numSimulations : 1 .. MaxSimulations,
            analyzeTop4 : {AnalyzeTop4}, analyzeTop8 : {AnalyzeTop8}] :
        /\ c.analyzeTop4 \/ c.analyzeTop8
        /\ c.numPlayers * c.numRounds * c.numSimulations <= MaxPlayerRounds}

\* players_standard and its JSON deep copies; null for a universe not analysed
FreshPlayers(c) ==
    [u \in Universes |-> IF Analysed(c, u) THEN NewPlayers(c.numPlayers) ELSE <<>>]

NoHistory == [u \in Universes |-> {}]

\* the state in which runSimulations starts its first trial
Start ==
    /\ config \in Configs
    /\ sim = 1
    /\ round = 1
    /\ pc = "pair"
    /\ players = FreshPlayers(config)
    /\ pairs = [u \in Universes |-> <<>>]
    /\ roundOutcomes = <<>>
    /\ finalResults = [u \in Universes |-> <<>>]
    /\ matchLog = [u \in Universes |-> <<>>]
    /\ idPlayers = NoHistory
    /\ idRounds = NoHistory
    /\ stats = <<>>
    /\ drawn = 0
    /\ run = 1
    /\ previous = <<>>
    /\ input = <<>>
    /\ called = FALSE
    /\ output = <<>>

\* Math.random() may yield any value at every call
Init == Start /\ tape = <<>>

\* the universe processed after u in the round, or "end"
NextUniverse(c, u) ==
    IF u = "standard" /\ c.analyzeTop4 THEN "id4"
    ELSE IF u \in {"standard", "id4"} /\ c.analyzeTop8 THEN "id8"
    ELSE "end"

\* pairings of all universes and a new, empty roundOutcomes
StartRound ==
    /\ pc = "pair"
    /\ pairs' = [u \in Universes |->
                    IF Analysed(config, u) THEN pairPlayers(players[u]) ELSE <<>>]
    /\ roundOutcomes' = <<>>
    /\ pc' = "standard"
    /\ UNCHANGED <<config, sim, round, players, finalResults, matchLog, idPlayers, idRounds,
                   stats, drawn, seedVars, callVars>>

\* ids of the players of the intentional draws of a processRound log
LogIDPlayers(log) ==
    UNION {{log[k].before[log[k].p1].id, log[k].before[log[k].p2].id} :
              k \in {i \in 1 .. Len(log) : log[i].result.intentional}}

\* the keys processRound asks getMatchOutcome for, in the order of its requests
RequestOrder(playerScores, roundPairs) ==
    LET twoPlayers == SelectSeq(roundPairs, LAMBDA pair : pair[2] # Null)
    IN  [k \in 1 .. Len(twoPlayers) |->
            OutcomeKey(playerScores[twoPlayers[k][1]].id, playerScores[twoPlayers[k][2]].id)]

\* what Math.random() * 100 yields for the keys that are generated, read from
\* the tape: the k-th request that is not cached takes the k-th next value
FromTape(new, order) ==
    LET requests == SelectSeq(order, LAMBDA key : key \in new)
    IN  [key \in new |->
            tape[((drawn + (CHOOSE k \in 1 .. Len(requests) : requests[k] = key) - 1)
                     % Len(tape)) + 1]]

\* mutant of Mutated: players_id4 and players_id8 are the array of
\* players_standard, not copies of it
MutatedShared(all, u, playerScores) ==
    [v \in Universes |-> IF all[v] = <<>> THEN all[v] ELSE playerScores]

\* the arrays of the universes after a call has mutated the array of universe
\* u: the others are deep copies (JSON.parse(JSON.stringify(players_standard)))
\* and keep their values
Mutated(all, u, playerScores) == [all EXCEPT ![u] = playerScores]

\* one processRound call of the round, for universe u
ProcessRound(u) ==
    /\ pc = u
    /\ LET keys == RoundKeys(players[u], pairs[u])
           new == keys \ CachedKeys(roundOutcomes, keys)
       IN  \E generated \in [new -> Rolls] :
             LET outcomes == CacheAfter(roundOutcomes, keys, generated)
                 done == processRound(players[u], pairs[u], DrawChance, UseID(u),
                                      CutSize(u), round, config.numRounds, outcomes)
                 next == NextUniverse(config, u)
             IN  /\ tape # <<>> =>
                        generated = FromTape(new, RequestOrder(players[u], pairs[u]))
                 /\ drawn' = IF tape # <<>>
                              THEN (drawn + Cardinality(new)) % Len(tape) ELSE drawn
                 /\ players' = Mutated(players, u, done.players)
                 /\ roundOutcomes' = outcomes
                 /\ matchLog' = [matchLog EXCEPT ![u] = done.log]
                 /\ idPlayers' = [idPlayers EXCEPT ![u] = @ \cup LogIDPlayers(done.log)]
                 /\ idRounds' = [idRounds EXCEPT ![u] =
                                    IF LogIDPlayers(done.log) # {} THEN @ \cup {round} ELSE @]
                 /\ pc' = IF done.threw THEN "crashed"
                          ELSE IF next # "end" THEN next
                          ELSE IF round < config.numRounds THEN "pair" ELSE "rank"
                 /\ round' = IF ~done.threw /\ next = "end" /\ round < config.numRounds
                             THEN round + 1 ELSE round
    /\ UNCHANGED <<config, sim, pairs, finalResults, stats, seedVars, callVars>>

\* bubbleStats and processedResults of every universe and discrepancyStats,
\* from the results of all trials
BatchStats(c, results) ==
    [bubbles |-> [u \in Universes |->
                     IF Analysed(c, u)
                     THEN processSimulationResults(results[u], c.analyzeTop4, c.analyzeTop8)
                     ELSE <<>>],
     records |-> [u \in Universes |->
                     IF Analysed(c, u)
                     THEN RecordAnalysis(results[u], c.numSimulations, c.numRounds)
                     ELSE <<>>],
     discrepancy |->
         [top4 |-> IF c.analyzeTop4
                   THEN DiscrepancyStats(results["standard"], results["id4"], 4) ELSE <<>>,
          top8 |-> IF c.analyzeTop8
                   THEN DiscrepancyStats(results["standard"], results["id8"], 8) ELSE <<>>]]

\* the rankings of the trial pushed to the result lists, then the next trial
\* (fresh player arrays) or the end of the batch: the statistics
RankTrial ==
    /\ pc = "rank"
    /\ finalResults' = [u \in Universes |->
                           IF Analysed(config, u)
                           THEN Append(finalResults[u], rankPlayers(players[u]).ranked)
                           ELSE finalResults[u]]
    /\ IF sim < config.numSimulations
       THEN /\ sim' = sim + 1
            /\ stats' = stats
            /\ round' = 1
            /\ pc' = "pair"
            /\ players' = FreshPlayers(config)
            /\ matchLog' = [u \in Universes |-> <<>>]
            /\ idPlayers' = NoHistory
            /\ idRounds' = NoHistory
       ELSE /\ pc' = "done"
            /\ stats' = BatchStats(config, finalResults')
            /\ players' = [u \in Universes |->
                              IF Analysed(config, u) THEN rankPlayers(players[u]).players
                              ELSE players[u]]
            /\ UNCHANGED <<sim, round, matchLog, idPlayers, idRounds>>
    /\ UNCHANGED <<config, pairs, roundOutcomes, drawn, seedVars, callVars>>

Next ==
    \/ StartRound
    \/ \E u \in Universes : ProcessRound(u)
    \/ RankTrial

Spec == Init /\ [][Next]_vars

\* ------------------------------------------- the batch run again, seeded
\* Math.random() yields the values of a tape over and over; the batch is run,
\* and then run again with the form unchanged and the tape read from its start.
TapeLength == 3

MaxRuns == 2

InitSeeded == Start /\ tape \in [1 .. TapeLength -> Rolls]

\* mutant of NewResults: the result lists outlive the run
ResultsKept(earlier) == earlier

\* const finalStandardResults = [], finalId4Results = [], finalId8Results = []:
\* the result lists of a run start empty, whatever an earlier run left
NewResults(earlier) == [u \in Universes |-> <<>>]

Rerun ==
    /\ pc = "done"
    /\ run < MaxRuns
    /\ run' = run + 1
    /\ previous' = [finalResults |-> finalResults, stats |-> stats]
    /\ sim' = 1
    /\ round' = 1
    /\ pc' = "pair"
    /\ players' = FreshPlayers(config)
    /\ pairs' = [u \in Universes |-> <<>>]
    /\ roundOutcomes' = <<>>
    /\ finalResults' = NewResults(finalResults)
    /\ matchLog' = [u \in Universes |-> <<>>]
    /\ idPlayers' = NoHistory
    /\ idRounds' = NoHistory
    /\ stats' = <<>>
    /\ drawn' = 0
    /\ UNCHANGED <<config, tape, callVars>>

NextSeeded ==
    \/ Next
    \/ Rerun

SpecSeeded == InitSeeded /\ [][NextSeeded]_vars

\* one trial of six players over three rounds, Math.random() a fixed sequence
\* of rolls
LongTape == 3

LongConfigs ==
    {c \in [numPlayers : {6}, numRounds : {3}, numSimulations : {1},
            analyzeTop4 : {AnalyzeTop4}, analyzeTop8 : {AnalyzeTop8}] : TRUE}

InitLong ==
    /\ config \in LongConfigs
    /\ tape \in [1 .. LongTape -> Rolls]
    /\ sim = 1
    /\ round = 1
    /\ pc = "pair"
    /\ players = FreshPlayers(config)
    /\ pairs = [u \in Universes |-> <<>>]
    /\ roundOutcomes = <<>>
    /\ finalResults = [u \in Universes |-> <<>>]
    /\ matchLog = [u \in Universes |-> <<>>]
    /\ idPlayers = NoHistory
    /\ idRounds = NoHistory
    /\ stats = <<>>
    /\ drawn = 0
    /\ run = 1
    /\ previous = <<>>
    /\ input = <<>>
    /\ called = FALSE
    /\ output = <<>>

SpecLong == InitLong /\ [][Next]_vars

\* ------------------------------------------------- single function calls
\* The specifications below call one function once, on arguments drawn by Init.
\* The batch does not run in them.
BatchIdle ==
    /\ config = <<>>
    /\ sim = 0
    /\ round = 0
    /\ pc = "call"
    /\ players = [u \in Universes |-> <<>>]
    /\ pairs = [u \in Universes |-> <<>>]
    /\ roundOutcomes = <<>>
    /\ finalResults = [u \in Universes |-> <<>>]
    /\ matchLog = [u \in Universes |-> <<>>]
    /\ idPlayers = NoHistory
    /\ idRounds = NoHistory
    /\ stats = <<>>
    /\ tape = <<>>
    /\ drawn = 0
    /\ run = 0
    /\ previous = <<>>

\* a player with this record and no opponents list (the functions called below
\* read id and points only)
PlayerWithRecord(j, wins, draws, losses) ==
    [id |-> j, points |-> 3 * wins + draws, wins |-> wins, losses |-> losses,
     draws |-> draws, opponents |-> <<>>, opponentWinPercentage |-> <<0, 1>>]

\* records after two rounds: 0, 1, 3 and 4 points
PairRecords == {<<0, 0, 2>>, <<0, 1, 1>>, <<1, 0, 1>>, <<1, 1, 0>>}

PairInputs ==
    UNION {[0 .. n - 1 -> PairRecords] : n \in 2 .. MaxPairPlayers}

InitPair ==
    /\ BatchIdle
    /\ \E recs \in PairInputs :
          input = [playerScores |->
                      [j \in DOMAIN recs |->
                          PlayerWithRecord(j, recs[j][1], recs[j][2], recs[j][3])]]
    /\ called = FALSE
    /\ output = <<>>

CallPairPlayers ==
    /\ ~called
    /\ called' = TRUE
    /\ output' = pairPlayers(input.playerScores)
    /\ UNCHANGED <<batchVars, input>>

SpecPair == InitPair /\ [][CallPairPlayers]_vars

\* simulateMatch outside the intentional-draw window, for every whole roll and
\* every draw chance, with and without a second player
InitMatch ==
    /\ BatchIdle
    /\ input \in [rand : 0 .. RollLimit - 1, drawPercent : 0 .. MaxDrawChance,
                  player1 : {0}, player2 : {1, Null}]
    /\ called = FALSE
    /\ output = <<>>

CallSimulateMatch ==
    /\ ~called
    /\ called' = TRUE
    /\ output' = simulateMatch(input.player1, input.player2, input.drawPercent, FALSE,
                               NewPlayers(2), 1, 1, 0, input.rand)
    /\ UNCHANGED <<batchVars, input>>

SpecMatch == InitMatch /\ [][CallSimulateMatch]_vars

\* round being played in the single calls of isSafeForCut
SafeRound == 4

\* records after the rounds before SafeRound: no win, one win, only wins
SafeRecords ==
    {<<0, 0, SafeRound - 1>>, <<1, 0, SafeRound - 2>>, <<SafeRound - 1, 0, 0>>}

SafeArrays ==
    UNION {[0 .. n - 1 -> SafeRecords] : n \in 2 .. MaxSafePlayers}

\* isSafeForCut in the final round, the penultimate round and two earlier rounds
InitSafe ==
    /\ BatchIdle
    /\ \E recs \in SafeArrays : \E player, opponent \in DOMAIN recs :
       \E cut \in 1 .. MaxCut : \E totalRounds \in SafeRound .. SafeRound + 3 :
          /\ player # opponent
          /\ input = [allPlayers |->
                         [j \in DOMAIN recs |->
                             PlayerWithRecord(j, recs[j][1], recs[j][2], recs[j][3])],
                      player |-> player, opponent |-> opponent, cut |-> cut,
                      currentRound |-> SafeRound, totalRounds |-> totalRounds]
    /\ called = FALSE
    /\ output = <<>>

CallIsSafeForCut ==
    /\ ~called
    /\ called' = TRUE
    /\ output' = isSafeForCut(input.player, input.opponent, input.allPlayers, input.cut,
                              input.currentRound, input.totalRounds)
    /\ UNCHANGED <<batchVars, input>>

SpecSafe == InitSafe /\ [][CallIsSafeForCut]_vars

\* isSafeForCut on two families of standings for a cut to eight: before the
\* fourth of five rounds, a player at 9 points among ten others at 6 points; and
\* before a final round (the fifth or the sixth), a player at 9 points among
\* eight others, two of them at 12 points and six at 9.  The opponent has any
\* score, and player, opponent and the two leaders hold any positions.

\* a player with these points after this many rounds (wins first, then draws)
ExampleRecord(j, points, games) ==
    PlayerWithRecord(j, points \div 3, points % 3, games - (points \div 3) - (points % 3))

PenultimateExamples ==
    {[allPlayers |-> [j \in 0 .. 11 |->
                         IF j = x[1] THEN ExampleRecord(j, 9, 3)
                         ELSE IF j = x[2] THEN ExampleRecord(j, x[3], 3)
                         ELSE ExampleRecord(j, 6, 3)],
      player |-> x[1], opponent |-> x[2], cut |-> 8, currentRound |-> 4, totalRounds |-> 5] :
        x \in {y \in (0 .. 11) \X (0 .. 11) \X {0, 3, 6, 9} : y[1] # y[2]}}

FinalExamples ==
    {[allPlayers |-> [j \in 0 .. 9 |->
                         IF j = x[1] THEN ExampleRecord(j, 9, x[5] - 1)
                         ELSE IF j = x[2] THEN ExampleRecord(j, x[3], x[5] - 1)
                         ELSE IF j \in x[4] THEN ExampleRecord(j, 12, x[5] - 1)
                         ELSE ExampleRecord(j, 9, x[5] - 1)],
      player |-> x[1], opponent |-> x[2], cut |-> 8, currentRound |-> x[5],
      totalRounds |-> x[5]] :
        x \in {y \in (0 .. 9) \X (0 .. 9) \X {0, 3, 6, 9, 12} \X (SUBSET (0 .. 9)) \X {5, 6} :
                  /\ y[1] # y[2]
                  /\ Cardinality(y[4]) = 2
                  /\ y[1] \notin y[4]
                  /\ y[2] \notin y[4]}}

\* before the fourth of five rounds, for the cuts to 2, 4 and 6: four or seven
\* others with 3 or 6 points each, the player (first or last of the array)
\* with 0 to 9 points, the opponent at 3 points
CutExamples ==
    {[allPlayers |-> [j \in 0 .. x[1] - 1 |->
                         IF j = x[2] THEN ExampleRecord(j, x[3], 3)
                         ELSE IF j = x[1] - 1 - x[2] THEN ExampleRecord(j, 3, 3)
                         ELSE ExampleRecord(j, x[4][j], 3)],
      player |-> x[2], opponent |-> x[1] - 1 - x[2], cut |-> x[5], currentRound |-> 4,
      totalRounds |-> 5] :
        x \in UNION {{n} \X {0, n - 1} \X {0, 3, 6, 9} \X [0 .. n - 1 -> {3, 6}] \X {2, 4, 6} :
                        n \in {6, 9}}}

InitExample ==
    /\ BatchIdle
    /\ input \in PenultimateExamples \cup FinalExamples \cup CutExamples
    /\ called = FALSE
    /\ output = <<>>

SpecExample == InitExample /\ [][CallIsSafeForCut]_vars

\* pairPlayers and processRound of the second round of a top-4 universe with
\* intentional draws, as runSimulations calls them for one universe, on
\* standings that a first round of six or seven players can leave (as many
\* wins as losses, one win more for the bye of seven players, draws in twos),
\* the tournament having two, three or four rounds
RoundRecords == {<<1, 0, 0>>, <<0, 1, 0>>, <<0, 0, 1>>}

RoundStandings ==
    UNION {{recs \in [0 .. n - 1 -> RoundRecords] :
               LET won == Cardinality({j \in 0 .. n - 1 : recs[j][1] = 1})
                   drew == Cardinality({j \in 0 .. n - 1 : recs[j][2] = 1})
                   lost == Cardinality({j \in 0 .. n - 1 : recs[j][3] = 1})
               IN  won = lost + (n % 2) /\ drew % 2 = 0} : n \in {6, 7}}

InitRound ==
    /\ BatchIdle
    /\ \E recs \in RoundStandings : \E numRounds \in 2 .. 4 :
          LET playerScores == [j \in DOMAIN recs |->
                                  PlayerWithRecord(j, recs[j][1], recs[j][2], recs[j][3])]
          IN  \E outcomes \in [RoundKeys(playerScores, pairPlayers(playerScores)) -> Rolls] :
                 input = [playerScores |-> playerScores, outcomes |-> outcomes,
                          useID |-> TRUE, cutSize |-> 4, round |-> 2,
                          numRounds |-> numRounds]
    /\ called = FALSE
    /\ output = <<>>

CallProcessRound ==
    /\ ~called
    /\ called' = TRUE
    /\ output' = processRound(input.playerScores, pairPlayers(input.playerScores),
                              DrawChance, input.useID, input.cutSize, input.round,
                              input.numRounds, input.outcomes)
    /\ UNCHANGED <<batchVars, input>>

SpecRound == InitRound /\ [][CallProcessRound]_vars

\* ================================================================ claims
LastResult(u) == finalResults[u][Len(finalResults[u])]

IDUniverses == {"id4", "id8"}

\* every player array a state shows: the arrays of the universes, and the
\* array each pairing of the last processRound calls found
ShownArrays ==
    {players[u] : u \in Universes}
        \cup UNION {{matchLog[u][k].before : k \in 1 .. Len(matchLog[u])} : u \in Universes}

\* C1: in every universe of every trial, after every applied match result
\* (decisive, draw or bye), each player has points = 3 * wins + draws.
C1_PointsFromWinsAndDraws ==
    \A arr \in ShownArrays : \A j \in DOMAIN arr :
        arr[j].points = 3 * arr[j].wins + arr[j].draws

\* C1 witness: a round with a bye and a decisive match has been applied to
\* players of whom one already had a draw.
C1_Witness ==
    \E u \in Universes :
        /\ \E k \in 1 .. Len(matchLog[u]) : matchLog[u][k].p2 = Null
        /\ \E k \in 1 .. Len(matchLog[u]) :
              matchLog[u][k].p2 # Null /\ ~matchLog[u][k].result.draw
        /\ \E j \in DOMAIN players[u] : players[u][j].wins >= 1 /\ players[u][j].draws >= 1

\* what the roll alone says about a two-player pairing: "draw", "p1" or "p2"
ByRoll(rand, drawPercent) ==
    IF rand < drawPercent THEN "draw"
    ELSE IF 2 * rand < 100 + drawPercent THEN "p1" ELSE "p2"

Outcome(e) ==
    IF e.result.draw THEN "draw"
    ELSE IF e.result.winner = e.p1 /\ e.result.loser = e.p2 THEN "p1"
    ELSE IF e.result.winner = e.p2 /\ e.result.loser = e.p1 THEN "p2"
    ELSE "other"

BothSafeBefore(u, e) ==
    /\ isSafeForCut(e.p1, e.p2, e.before, CutSize(u), e.round, config.numRounds) = "true"
    /\ isSafeForCut(e.p2, e.p1, e.before, CutSize(u), e.round, config.numRounds) = "true"

\* C4: a pairing is resolved as an intentional draw, whatever its roll, exactly
\* when the universe allows intentional draws, at most two rounds remain after
\* the round being played and isSafeForCut is true for both players; in every
\* other case the roll alone decides the result.
C4_IntentionalDrawExactlyWhenBothSafe ==
    \A u \in Universes : \A k \in 1 .. Len(matchLog[u]) :
        LET e == matchLog[u][k]
        IN  e.p2 # Null =>
              /\ e.result.intentional =
                    (/\ UseID(u)
                     /\ config.numRounds - e.round <= 2
                     /\ BothSafeBefore(u, e))
              /\ e.result.intentional => Outcome(e) = "draw"
              /\ ~e.result.intentional => Outcome(e) = ByRoll(e.rand, DrawChance)

\* C4 witness: in the same round, the top-8 universe draws a pairing
\* intentionally on a roll that is a win for the second player, while the top-4
\* universe, inside the window, finds a player unsafe and lets the roll decide.
C4_Witness ==
    /\ \E k \in 1 .. Len(matchLog["id8"]) :
          /\ matchLog["id8"][k].result.intentional
          /\ matchLog["id8"][k].rand = 99
    /\ \E k \in 1 .. Len(matchLog["id4"]) :
          LET e == matchLog["id4"][k]
          IN  /\ e.p2 # Null
              /\ config.numRounds - e.round <= 2
              /\ ~e.result.intentional
              /\ ~BothSafeBefore("id4", e)
              /\ Outcome(e) = "p2"

\* position (1-based) of the player with this id in a ranking
RankOf(ranked, id) == CHOOSE k \in 1 .. Len(ranked) : ranked[k].id = id

\* C8: in a universe with intentional draws for cut size k, every player one of
\* whose matches was resolved as an intentional draw is ranked within the first
\* k positions of the universe's final standings.
C8_IntentionalDrawersMakeTheCut ==
    pc = "done" =>
        \A u \in IDUniverses : \A id \in idPlayers[u] :
            RankOf(LastResult(u), id) <= CutSize(u)

\* points, wins, losses, draws and opponents of a player
Core(p) ==
    [points |-> p.points, wins |-> p.wins, losses |-> p.losses, draws |-> p.draws,
     opponents |-> p.opponents]

\* all universes have completed the same rounds of the trial
BetweenRounds == pc \in {"pair", "rank", "done"}

\* C10: within one trial, if no pairing of an ID universe has been resolved as
\* an intentional draw in the rounds played so far, then after these rounds every
\* player's points, wins, losses, draws and opponents in that universe equal
\* those of the no-ID universe.
C10_OnlyIntentionalDrawsDiverge ==
    BetweenRounds =>
        \A u \in IDUniverses :
            idRounds[u] = {} =>
                \A j \in DOMAIN players[u] : Core(players[u][j]) = Core(players["standard"][j])

\* C10 witness: a trial of six players is over; the top-4 universe never drew
\* intentionally and played matches with winners and with draws, while the top-8
\* universe did draw intentionally.
C10_Witness ==
    /\ pc = "rank"
    /\ config.numPlayers = 6
    /\ idRounds["id4"] = {}
    /\ idRounds["id8"] # {}
    /\ \E j \in DOMAIN players["id4"] : players["id4"][j].wins = 1
    /\ \E j \in DOMAIN players["id4"] : players["id4"][j].draws = 1

\* the row of a ranking with this id
RowOf(ranked, id) == ranked[RankOf(ranked, id)]

\* twice the match points share of a row, times its games: 2 * wins + draws
RECURSIVE SumHalfPoints(_, _)
SumHalfPoints(ranked, opponents) ==
    IF opponents = <<>> THEN 0
    ELSE 2 * RowOf(ranked, Head(opponents)).wins + RowOf(ranked, Head(opponents)).draws
            + SumHalfPoints(ranked, Tail(opponents))

\* the row's opponentWinPercentage is the mean, one term per entry of its
\* opponents list, of (wins + draws / 2) / games of the opponent (every player
\* of a ranked trial has played `games` rounds); 0 without opponents
MeanOfOpponents(ranked, row, games) ==
    IF row.opponents = <<>> THEN row.opponentWinPercentage[1] = 0
    ELSE /\ \A k \in 1 .. Len(row.opponents) :
               LET o == RowOf(ranked, row.opponents[k])
               IN  o.wins + o.losses + o.draws = games
         /\ row.opponentWinPercentage[1] * 2 * games * Len(row.opponents)
                = row.opponentWinPercentage[2] * SumHalfPoints(ranked, row.opponents)

\* a is strictly before b: points descending, opponentWinPercentage descending,
\* id ascending
StrictlyBefore(a, b) ==
    \/ a.points > b.points
    \/ /\ a.points = b.points
       /\ a.opponentWinPercentage[1] * b.opponentWinPercentage[2]
              > b.opponentWinPercentage[1] * a.opponentWinPercentage[2]
    \/ /\ a.points = b.points
       /\ a.opponentWinPercentage[1] * b.opponentWinPercentage[2]
              = b.opponentWinPercentage[1] * a.opponentWinPercentage[2]
       /\ a.id < b.id

\* C9: rankPlayers returns every player exactly once, ordered by points
\* descending, then opponentWinPercentage descending, then id ascending, any two
\* adjacent rows differing strictly in this order; opponentWinPercentage is the
\* mean over the entries of the opponents list (a rematch counted per match) of
\* the opponents' (wins + draws / 2) / (wins + losses + draws), 0 without opponents.
C9_RankingIsStrictTotalOrder ==
    \A u \in Universes : \A t \in 1 .. Len(finalResults[u]) :
        LET ranked == finalResults[u][t]
        IN  /\ Len(ranked) = config.numPlayers
            /\ {ranked[k].id : k \in 1 .. Len(ranked)} = 0 .. config.numPlayers - 1
            /\ \A k \in 1 .. Len(ranked) - 1 : StrictlyBefore(ranked[k], ranked[k + 1])
            /\ \A k \in 1 .. Len(ranked) : MeanOfOpponents(ranked, ranked[k], config.numRounds)

\* C9 witness: a ranking in which the tiebreaker puts a higher id before a lower
\* one at equal points, and in which a player met the same opponent twice.
C9_Witness ==
    \E u \in Universes : \E t \in 1 .. Len(finalResults[u]) :
        LET ranked == finalResults[u][t]
        IN  /\ \E k \in 1 .. Len(ranked) - 1 :
                  /\ ranked[k].points = ranked[k + 1].points
                  /\ ranked[k].id > ranked[k + 1].id
            /\ \E k \in 1 .. Len(ranked) : \E a, b \in 1 .. Len(ranked[k].opponents) :
                  a # b /\ ranked[k].opponents[a] = ranked[k].opponents[b]

\* ------------------------------------------------ claims on single calls
\* C2: for any N >= 2 players with any points, pairPlayers returns exactly
\* ceil(N / 2) pairings, with exactly one bye pairing when N is odd and none when
\* N is even; the bye goes to the last player of the order (points descending,
\* id ascending).
C2_PairingCountAndBye ==
    called =>
        LET arr == input.playerScores
            n == Length(arr)
            byes == {k \in 1 .. Len(output) : output[k][2] = Null}
        IN  /\ 2 * Len(output) \in {n, n + 1}
            /\ Cardinality(byes) = n % 2
            /\ \A k \in byes : \A q \in DOMAIN arr :
                  LET r == output[k][1]
                  IN  q # r =>
                        \/ arr[q].points > arr[r].points
                        \/ arr[q].points = arr[r].points /\ arr[q].id < arr[r].id

\* C2 witness: an odd number of players, and the bye goes to a player who is not
\* the last of the array (a later player has more points).
C2_Witness ==
    /\ called
    /\ Length(input.playerScores) % 2 = 1
    /\ \E k \in 1 .. Len(output) :
          /\ output[k][2] = Null
          /\ \E q \in DOMAIN input.playerScores :
                /\ q > output[k][1]
                /\ input.playerScores[q].points > input.playerScores[output[k][1]].points

\* C3: a two-player pairing resolved by its roll is a draw for roll <
\* drawPercent, a win of the first player for drawPercent <= roll < 50 +
\* drawPercent / 2, and a win of the second player for any other roll; a pairing
\* without second player is a bye.
C3_RollDecides ==
    called =>
        IF input.player2 = Null
        THEN output.bye /\ ~output.draw /\ output.winner = input.player1
        ELSE /\ ~output.bye
             /\ input.rand < input.drawPercent => output.draw
             /\ (input.drawPercent <= input.rand
                    /\ 2 * input.rand < 100 + input.drawPercent)
                  => (/\ ~output.draw
                      /\ output.winner = input.player1
                      /\ output.loser = input.player2)
             /\ (input.drawPercent <= input.rand
                    /\ 2 * input.rand >= 100 + input.drawPercent)
                  => (/\ ~output.draw
                      /\ output.winner = input.player2
                      /\ output.loser = input.player1)

\* C3 witness: draw chance 5, roll 52 (below 52.5): the first player wins.
C3_Witness ==
    /\ called
    /\ input.player2 # Null
    /\ input.drawPercent = 5
    /\ input.rand = 52
    /\ output.winner = input.player1

\* the players other than player and opponent of an isSafeForCut call
OtherPlayers ==
    {p \in DOMAIN input.allPlayers :
        /\ input.allPlayers[p].id # input.allPlayers[input.player].id
        /\ input.allPlayers[p].id # input.allPlayers[input.opponent].id}

PointsOf(p) == input.allPlayers[p].points

\* the k-th highest points value among the players of S (k <= number of S)
KthHighest(S, k) ==
    CHOOSE v \in {PointsOf(p) : p \in S} :
        /\ Cardinality({p \in S : PointsOf(p) > v}) < k
        /\ Cardinality({p \in S : PointsOf(p) >= v}) >= k

RoundsRemaining == input.totalRounds - input.currentRound

\* C5: in the final round isSafeForCut returns true when fewer than cutSize
\* players other than player and opponent exist; otherwise it returns true iff
\* player.points + 1 > others[cutSize - 2].points + 3, others sorted by points
\* descending (cutSize >= 2, so that the position exists).
C5_FinalRoundBoundary ==
    (called /\ RoundsRemaining = 0 /\ input.cut >= 2) =>
        IF Cardinality(OtherPlayers) < input.cut
        THEN output = "true"
        ELSE /\ output \in {"true", "false"}
             /\ (output = "true") =
                   (PointsOf(input.player) + 1 > KthHighest(OtherPlayers, input.cut - 1) + 3)

\* C5 witness: a final-round call with at least cutSize others that returns
\* true although an other player further down the array has more points than
\* the boundary allows.
C5_Witness ==
    /\ called
    /\ RoundsRemaining = 0
    /\ input.cut >= 2
    /\ Cardinality(OtherPlayers) >= input.cut
    /\ output = "true"
    /\ \E p \in OtherPlayers : PointsOf(p) + 3 >= PointsOf(input.player) + 1

\* the score range of a projection over two rounds
ScoreRange == 0 .. 3 * (SafeRound - 1) + 6

\* how many players of S have each score
ScoreCounts(S) == [s \in ScoreRange |-> Cardinality({p \in S : PointsOf(p) = s})]

\* one projected round: of the g scores of a group ceil(g / 2) gain 3, the
\* other floor(g / 2) stay
ProjectedCounts(c) ==
    [s \in ScoreRange |->
        c[s] \div 2 + (IF s - 3 \in ScoreRange THEN (c[s - 3] + 1) \div 2 ELSE 0)]

RECURSIVE CountFrom(_, _)
CountFrom(c, v) == IF v \notin ScoreRange THEN 0 ELSE c[v] + CountFrom(c, v + 1)

\* the k-th highest score of the counts c
KthHighestScore(c, k) ==
    CHOOSE v \in ScoreRange : CountFrom(c, v) >= k /\ CountFrom(c, v + 1) < k

\* C6: in the penultimate round, for every cut size, isSafeForCut returns true
\* iff player.points + 2 exceeds the value at index cutSize - 2 of the other
\* players' scores after two iterations of the Swiss-constrained projection
\* (stated for the calls with at least cutSize others, where the index exists).
C6_PenultimateBoundaryAtCut ==
    (called /\ RoundsRemaining = 1 /\ input.cut >= 2
        /\ Cardinality(OtherPlayers) >= input.cut) =>
        (output = "true") =
            (PointsOf(input.player) + 2 >
                KthHighestScore(ProjectedCounts(ProjectedCounts(ScoreCounts(OtherPlayers))),
                                input.cut - 1))

\* the others who can still pass playerScoreAfterDraw by winning out
Threats ==
    {p \in OtherPlayers :
        PointsOf(p) + 3 * (1 + RoundsRemaining) > PointsOf(input.player) + 1}

\* ceil(n / 2)
CeilHalf(n) == CHOOSE h \in 0 .. n : 2 * h >= n /\ 2 * h - 1 <= n

\* sum, over the scores of S, of ceil(number of threats with that score / 2)
RECURSIVE HalvedBuckets(_)
HalvedBuckets(S) ==
    IF S = {} THEN 0
    ELSE LET s == CHOOSE y \in S : TRUE
         IN  CeilHalf(Cardinality({p \in Threats : PointsOf(p) = s}))
                + HalvedBuckets(S \ {s})

RealisticThreats == HalvedBuckets({PointsOf(p) : p \in Threats})

\* C7: with two or more rounds remaining isSafeForCut returns true iff the sum
\* over the buckets of equal current score of ceil(bucketSize / 2) is below
\* cutSize, the buckets holding exactly the others whose points + 3 * (1 +
\* roundsRemaining) exceed player.points + 1 (cutSize >= 2).
C7_EarlierRoundThreatCount ==
    (called /\ RoundsRemaining >= 2 /\ input.cut >= 2) =>
        /\ output \in {"true", "false"}
        /\ (output = "true") = (RealisticThreats < input.cut)

\* C7 witness: a call that returns true only because of the halving (as many
\* threats as the cut is large), with an other player who is no threat.
C7_Witness ==
    /\ called
    /\ RoundsRemaining >= 2
    /\ input.cut >= 2
    /\ output = "true"
    /\ Cardinality(Threats) >= input.cut
    /\ Threats # OtherPlayers

\* ------------------------------------------------ the roll cache (batch)
\* the two-player pairings of the universe's last processRound
TwoPlayerEntries(u) ==
    {matchLog[u][k] : k \in {i \in 1 .. Len(matchLog[u]) : matchLog[u][i].p2 # Null}}

\* the ids of the two players of a pairing, as a set
EntryIds(e) == {e.before[e.p1].id, e.before[e.p2].id}

\* the two ids of a pairing, the lower one first
LowHigh(e) ==
    <<CHOOSE a \in EntryIds(e) : \A b \in EntryIds(e) : a <= b,
      CHOOSE a \in EntryIds(e) : \A b \in EntryIds(e) : a >= b>>

\* the round whose rolls roundOutcomes holds (the round just completed while the
\* next one has not been paired)
CacheRound == IF pc = "pair" THEN round - 1 ELSE round

\* C11: within one round of one trial the cache holds one roll per unordered id
\* pair (its keys are the pairs with the lower id first), every pairing of the
\* round, in whatever order its two players are requested and in whatever
\* universe, gets the roll the cache holds for its pair, so the same pair gets
\* the same roll in every universe; the cache is empty when a round starts.
C11_OneRollPerPairPerRound ==
    /\ pc = "standard" => DOMAIN roundOutcomes = {}
    /\ \A key \in DOMAIN roundOutcomes : key[1] < key[2]
    /\ \A u \in Universes : \A e \in TwoPlayerEntries(u) :
          e.round = CacheRound =>
              /\ LowHigh(e) \in DOMAIN roundOutcomes
              /\ e.rand = roundOutcomes[LowHigh(e)]
    /\ \A u, v \in Universes : \A e \in TwoPlayerEntries(u) : \A f \in TwoPlayerEntries(v) :
          (e.round = f.round /\ EntryIds(e) = EntryIds(f)) => e.rand = f.rand

\* C11 witness: in the same round the no-ID universe pairs (b, a) and the top-8
\* universe pairs (a, b), the same two players in the other order, and both get
\* the same roll; a third pair of the round has a different roll.
C11_Witness ==
    /\ \E e \in TwoPlayerEntries("standard") : \E f \in TwoPlayerEntries("id8") :
          /\ e.round = f.round
          /\ EntryIds(e) = EntryIds(f)
          /\ e.before[e.p1].id = f.before[f.p2].id
          /\ e.before[e.p1].id > e.before[e.p2].id
          /\ e.rand = f.rand
    /\ \E j, k \in DOMAIN roundOutcomes : roundOutcomes[j] # roundOutcomes[k]

\* ------------------------------------------------ the statistics (batch)
\* the bubble samples of universe u for cut k (4 or 8), one per trial
BubbleSamples(u, k) ==
    IF k = 4 THEN stats.bubbles[u].top4Bubbles ELSE stats.bubbles[u].top8Bubbles

\* b is the bubble of the standings for cut k
IsBubble(standings, k, b) ==
    IF Len(standings) < k THEN b = 0
    ELSE /\ b >= 0
         /\ k + b <= Len(standings)
         /\ \A i \in k + 1 .. k + b : standings[i].points = standings[k].points
         /\ k + b + 1 <= Len(standings) =>
                standings[k + b + 1].points < standings[k].points

\* C12: for each cut k (4 and 8) and the final standings of each trial of each
\* universe: with at least k rows the bubble size b is >= 0, the b rows right
\* after position k have the points of the row at position k, and the row after
\* those, if any, has strictly fewer points; with fewer than k rows b is 0.
C12_BubbleIsContiguousTie ==
    pc = "done" =>
        \A u \in Universes : \A k \in {4, 8} :
            /\ Len(BubbleSamples(u, k)) = Len(finalResults[u])
            /\ \A t \in 1 .. Len(finalResults[u]) :
                  IsBubble(finalResults[u][t], k, BubbleSamples(u, k)[t])

\* C12 witness: standings of six players with a bubble of one for the cut to
\* four (the fifth row ties the fourth, the sixth has fewer points); the same
\* standings are shorter than the cut to eight and have bubble 0 there.
C12_Witness ==
    /\ pc = "done"
    /\ \E u \in Universes : \E t \in 1 .. Len(finalResults[u]) :
          /\ Len(finalResults[u][t]) = 6
          /\ BubbleSamples(u, 4)[t] = 1
          /\ finalResults[u][t][5].points = finalResults[u][t][4].points
          /\ finalResults[u][t][6].points < finalResults[u][t][5].points
          /\ BubbleSamples(u, 8)[t] = 0

\* the discrepancy samples for cut k (4 or 8), one per trial
DiscrepancySamples(k) ==
    IF k = 4 THEN stats.discrepancy.top4.counts ELSE stats.discrepancy.top8.counts

\* the ID universe that matches cut k
IDUniverse(k) == IF k = 4 THEN "id4" ELSE "id8"

\* the ids of the players in the first k rows of the standings
InFirstRows(standings, k) ==
    {standings[i].id : i \in {j \in 1 .. Len(standings) : j <= k}}

\* C13: for every trial and every analysed cut k, the discrepancy is the number
\* of ids in the first k rows of the no-ID standings that are not in the first k
\* rows of the standings of the ID universe for that cut, and it is between 0
\* and k.
C13_DiscrepancyIsPushedOutCount ==
    pc = "done" =>
        \A k \in {4, 8} :
            /\ Len(DiscrepancySamples(k)) = config.numSimulations
            /\ \A t \in 1 .. config.numSimulations :
                  /\ DiscrepancySamples(k)[t] =
                        Cardinality(InFirstRows(finalResults["standard"][t], k)
                                        \ InFirstRows(finalResults[IDUniverse(k)][t], k))
                  /\ DiscrepancySamples(k)[t] >= 0
                  /\ DiscrepancySamples(k)[t] <= k

\* C13 witness: a trial in which a player of the no-ID top four is not in the
\* top four of the top-4 universe.
C13_Witness ==
    /\ pc = "done"
    /\ \E t \in 1 .. config.numSimulations : DiscrepancySamples(4)[t] >= 1

\* ------------------------------------------------ one round (batch)
\* the sum of the points of all players of an array
RECURSIVE TotalPoints(_, _)
TotalPoints(arr, n) == IF n = 0 THEN 0 ELSE arr[n - 1].points + TotalPoints(arr, n - 1)

\* how many pairings of the universe's last processRound were byes, were drawn
\* (by the roll or intentionally), were won by one of the two players
ByesOf(u) == Cardinality({k \in 1 .. Len(matchLog[u]) : matchLog[u][k].result.bye})

DrawsOf(u) == Cardinality({k \in 1 .. Len(matchLog[u]) : matchLog[u][k].result.draw})

DecisiveOf(u) ==
    Cardinality({k \in 1 .. Len(matchLog[u]) :
                    /\ matchLog[u][k].p2 # Null
                    /\ Outcome(matchLog[u][k]) \in {"p1", "p2"}})

\* C14: for every round of every universe, the total of all players' points
\* after the round minus the total before it is 3 * (decisive matches) + 2 *
\* (drawn matches, forced or rolled) + 3 * (byes) of the round.
C14_PointsAddedPerRound ==
    \A u \in Universes :
        matchLog[u] # <<>> =>
            /\ ByesOf(u) + DrawsOf(u) + DecisiveOf(u) = Len(matchLog[u])
            /\ TotalPoints(players[u], Length(players[u]))
                    - TotalPoints(matchLog[u][1].before, Length(players[u]))
                 = 3 * DecisiveOf(u) + 2 * DrawsOf(u) + 3 * ByesOf(u)

\* C14 witness: a round of a universe with a bye, a match drawn by its roll and
\* a decisive match, and a round of another universe with an intentional draw.
C14_Witness ==
    /\ \E u \in Universes :
          /\ ByesOf(u) = 1
          /\ DecisiveOf(u) >= 1
          /\ \E k \in 1 .. Len(matchLog[u]) :
                matchLog[u][k].result.draw /\ ~matchLog[u][k].result.intentional
    /\ \E u \in Universes : \E k \in 1 .. Len(matchLog[u]) : matchLog[u][k].result.intentional

\* wins + losses + draws of a player
Games(p) == p.wins + p.losses + p.draws

\* C15 (as stated): in every reachable state of a trial, for every player count
\* including odd ones, each player's opponents list has length wins + losses +
\* draws.
C15_OpponentsLengthIsGames ==
    \A arr \in ShownArrays : \A j \in DOMAIN arr :
        Len(arr[j].opponents) = Games(arr[j])

\* by how much wins + losses + draws exceed the length of the opponents list
ByeGap(p) == Games(p) - Len(p.opponents)

\* the players who got the bye in the universe's last processRound
ByePlayers(u) ==
    {matchLog[u][k].before[matchLog[u][k].p1].id :
        k \in {i \in 1 .. Len(matchLog[u]) : matchLog[u][i].p2 = Null}}

\* C15 (amended): each player's opponents list has length wins + losses + draws
\* minus the number of byes the player received: a bye adds a win and no
\* opponent, so the gap is 0 for a new player, grows by one in a round exactly
\* for the player who gets the round's bye, and the two numbers are equal
\* throughout when the number of players is even.
C15_OpponentsLengthIsGamesWithoutByes ==
    /\ \A arr \in ShownArrays : \A j \in DOMAIN arr :
          /\ ByeGap(arr[j]) >= 0
          /\ ByeGap(arr[j]) <= round
          /\ Length(arr) % 2 = 0 => ByeGap(arr[j]) = 0
    /\ \A u \in Universes :
          matchLog[u] # <<>> =>
              /\ Cardinality(ByePlayers(u)) = Length(players[u]) % 2
              /\ \A j \in DOMAIN players[u] :
                    ByeGap(players[u][j]) - ByeGap(matchLog[u][1].before[j])
                        = IF players[u][j].id \in ByePlayers(u) THEN 1 ELSE 0

\* C15 witness: with an odd number of players, a player has played a match and
\* received a bye, and another player has played two matches and had no bye.
C15_Witness ==
    \E u \in Universes :
        /\ Length(players[u]) % 2 = 1
        /\ \E j \in DOMAIN players[u] :
              Len(players[u][j].opponents) = 1 /\ Games(players[u][j]) = 2
        /\ \E j \in DOMAIN players[u] :
              Len(players[u][j].opponents) = 2 /\ Games(players[u][j]) = 2

\* ------------------------------------------------ pairing (batch)
\* the array with every player's wins, losses, draws, opponents and
\* opponentWinPercentage cleared: ids and points are all that is left
WithoutHistory(arr) ==
    [j \in DOMAIN arr |-> [NewPlayer(arr[j].id) EXCEPT !.points = arr[j].points]]

\* the two players of the pairing have met in an earlier round of the trial
IsRematch(arr, pair) ==
    /\ pair[2] # Null
    /\ \E k \in 1 .. Len(arr[pair[1]].opponents) : arr[pair[1]].opponents[k] = arr[pair[2]].id

\* C16: the pairing pairPlayers returns is a function of the players' points
\* and ids only: for the array of every universe it is the pairing of the same
\* array without wins, losses, draws and opponents, and so are the pairings a
\* round is played with (no rematch avoidance).
C16_PairingIgnoresHistory ==
    \A u \in Universes :
        /\ pairPlayers(players[u]) = pairPlayers(WithoutHistory(players[u]))
        /\ pc = "standard" => pairs[u] = pairPlayers(WithoutHistory(players[u]))

\* C16 witness: a round is about to be played in which two players are paired
\* who have already played each other in this trial, while another pairing of
\* the round is no rematch.
C16_Witness ==
    /\ pc = "standard"
    /\ \E u \in Universes :
          /\ \E k \in 1 .. Len(pairs[u]) : IsRematch(players[u], pairs[u][k])
          /\ \E k \in 1 .. Len(pairs[u]) :
                pairs[u][k][2] # Null /\ ~IsRematch(players[u], pairs[u][k])

C18_FinalExampleIsUnsafe ==
    (/\ called
     /\ RoundsRemaining = 0
     /\ input.cut = 8
     /\ PointsOf(input.player) = 9
     /\ Cardinality(OtherPlayers) = 8
     /\ Cardinality({p \in OtherPlayers : PointsOf(p) = 12}) = 2
     /\ Cardinality({p \in OtherPlayers : PointsOf(p) = 9}) = 6)
        => output = "false"

\* C18 witness: the call of the example has been made in a fifth and final
\* round, the two leaders being the last two players of the array.
C18_Witness ==
    /\ called
    /\ RoundsRemaining = 0
    /\ input.totalRounds = 5
    /\ input.cut = 8
    /\ PointsOf(input.player) = 9
    /\ Cardinality(OtherPlayers) = 8
    /\ {p \in OtherPlayers : PointsOf(p) = 12} = {8, 9}
    /\ Cardinality({p \in OtherPlayers : PointsOf(p) = 9}) = 6
    /\ output = "false"

\* ------------------------------------------------ isSafeForCut, any cut size
\* C19: for every cut size >= 1 (1 included) and every pairing of one of the
\* last three rounds, isSafeForCut yields true or false: it never reads a
\* position outside the sequence of the other players.
C19_SafetyCheckNeverFails ==
    (called /\ input.cut >= 1 /\ RoundsRemaining <= 2) => output \in {"true", "false"}

Thresholds(R) ==
    << <<R, 0, 0>>, <<R - 1, 0, 1>>, <<R - 1, 1, 0>>, <<R - 2, 1, 1>>, <<R - 2, 2, 0>> >>

\* the (losses, draws) shapes that are counted
TargetShapes == { <<0, 0>>, <<0, 1>>, <<1, 0>>, <<1, 1>>, <<2, 0>> }

ImpliedPoints(wins, draws) == 3 * wins + draws

\* the record of row p is the threshold T or better
SameOrBetter(p, T) ==
    LET mine == ImpliedPoints(p.wins, p.draws)
        theirs == ImpliedPoints(T[1], T[3])
    IN  \/ mine > theirs
        \/ mine = theirs /\ p.losses < T[2]
        \/ mine = theirs /\ p.losses = T[2] /\ p.draws <= T[3]

\* the rows of the standings that count for threshold T
CountedRows(standings, T) ==
    {i \in 1 .. Len(standings) :
        /\ <<standings[i].losses, standings[i].draws>> \in TargetShapes
        /\ SameOrBetter(standings[i], T)}

\* the analysed universes
AnalysedUniverses == {u \in Universes : Analysed(config, u)}

\* C21: for R >= 2 rounds and each of the five thresholds T, the record-or-
\* better count of every trial of every universe is the number of ranked
\* players whose (losses, draws) is (0,0), (0,1), (1,0), (1,1) or (2,0) and whose
\* record is T or better (more 3*wins+draws, then fewer losses, then fewer
\* draws); players of any other shape are not counted.
C21_RecordOrBetterCount ==
    (pc = "done" /\ config.numRounds >= 2) =>
        \A u \in AnalysedUniverses : \A t \in 1 .. 5 :
            LET counts == stats.records[u][t].recordAndBetterCounts
            IN  /\ Len(counts) = config.numSimulations
                /\ \A s \in 1 .. config.numSimulations :
                      counts[s] = Cardinality(CountedRows(finalResults[u][s],
                                                          Thresholds(config.numRounds)[t]))

\* C21 witness: standings with a player of two draws who has more points than
\* the threshold (R-2)-2 and is not counted for it, while another player is.
C21_Witness ==
    /\ pc = "done"
    /\ config.numRounds >= 2
    /\ \E u \in AnalysedUniverses : \E s \in 1 .. config.numSimulations :
          LET standings == finalResults[u][s]
              T == Thresholds(config.numRounds)[5]
          IN  /\ \E i \in 1 .. Len(standings) :
                    /\ standings[i].draws = 2
                    /\ standings[i].points > ImpliedPoints(T[1], T[3])
                    /\ i \notin CountedRows(standings, T)
              /\ stats.records[u][5].recordAndBetterCounts[s] >= 1
              /\ stats.records[u][5].recordAndBetterCounts[s] < Len(standings)

\* the sum of the raw bucket counts of a distribution
RECURSIVE BucketSum(_, _)
BucketSum(distribution, buckets) ==
    IF buckets = {} THEN 0
    ELSE LET b == CHOOSE x \in buckets : TRUE
         IN  distribution[b] + BucketSum(distribution, buckets \ {b})

\* the trials whose count for threshold t in universe u is positive
PositiveTrials(u, t) ==
    {s \in 1 .. config.numSimulations : stats.records[u][t].recordAndBetterCounts[s] > 0}

\* C26 as stated: for each threshold the count of every trial is a sample of
\* the distribution, so the raw bucket counts sum to numSimulations.
C26_EveryTrialIsASample ==
    pc = "done" =>
        \A u \in AnalysedUniverses : \A t \in 1 .. 5 :
            LET distribution == stats.records[u][t].distribution
            IN  BucketSum(distribution, DOMAIN distribution) = config.numSimulations

\* C26 amended: for each threshold the count of every trial with a count above
\* zero is a sample of the distribution: there is no bucket 0, each bucket
\* holds the number of trials with that count, the raw bucket counts sum to the
\* number of trials with a positive count (at most numSimulations), and the
\* threshold is reported exactly when some trial has a positive count.
C26_PositiveCountsAreSamples ==
    pc = "done" =>
        \A u \in AnalysedUniverses : \A t \in 1 .. 5 :
            LET distribution == stats.records[u][t].distribution
                counts == stats.records[u][t].recordAndBetterCounts
            IN  /\ 0 \notin DOMAIN distribution
                /\ DOMAIN distribution = {counts[s] : s \in PositiveTrials(u, t)}
                /\ \A b \in DOMAIN distribution :
                      distribution[b] = Cardinality({s \in PositiveTrials(u, t) : counts[s] = b})
                /\ BucketSum(distribution, DOMAIN distribution)
                       = Cardinality(PositiveTrials(u, t))
                /\ Cardinality(PositiveTrials(u, t)) <= config.numSimulations
                /\ stats.records[u][t].shown <=> PositiveTrials(u, t) # {}
                /\ stats.records[u][t].numSimulations = config.numSimulations

\* C26 witness: two trials, one with no undefeated player and one with an
\* undefeated player: the distribution of the threshold R-0 has one sample.
C26_Witness ==
    /\ pc = "done"
    /\ config.numSimulations = 2
    /\ \E u \in AnalysedUniverses :
          /\ Cardinality(PositiveTrials(u, 1)) = 1
          /\ BucketSum(stats.records[u][1].distribution,
                       DOMAIN stats.records[u][1].distribution) = 1

\* ------------------------------------------------ the final round (batch)
\* the players of the pairings of the last processRound of universe u that
\* were resolved as an intentional draw
DrawersOfLastRound(u) ==
    UNION {{matchLog[u][k].p1, matchLog[u][k].p2} :
              k \in {j \in 1 .. Len(matchLog[u]) : matchLog[u][j].result.intentional}}

\* C22: a player whose final-round match is resolved as a forced intentional
\* draw is ranked within the first k positions of the final standings of that
\* universe (cut size k), whatever the other final-round matches give.
C22_FinalRoundDrawersMakeTheCut ==
    pc = "done" =>
        \A u \in IDUniverses :
            (matchLog[u] # <<>> /\ matchLog[u][1].round = config.numRounds) =>
                \A id \in DrawersOfLastRound(u) :
                    RankOf(LastResult(u), id) <= CutSize(u)

\* ------------------------------------------------ the penultimate boundary
\* the boundary of the penultimate round: the seventh-highest score of the
\* others after two projected rounds, -1 with fewer than seven others
SeventhProjected ==
    IF Cardinality(OtherPlayers) < 7 THEN -1
    ELSE KthHighestScore(ProjectedCounts(ProjectedCounts(ScoreCounts(OtherPlayers))), 7)

\* C23: in the penultimate round, with at least cutSize others, isSafeForCut
\* returns true iff player.points + 2 exceeds the 7th-highest projected score of
\* the others (index 6) whatever the cut size, the projection being -1 for fewer
\* than 7 scores; so for a cut size below 7 and fewer than 7 others it returns
\* true regardless of anyone's points (cutSize >= 2).
C23_PenultimateBoundaryIsIndexSix ==
    (called /\ RoundsRemaining = 1 /\ input.cut >= 2
        /\ Cardinality(OtherPlayers) >= input.cut) =>
        /\ (output = "true") = (PointsOf(input.player) + 2 > SeventhProjected)
        /\ (input.cut < 7 /\ Cardinality(OtherPlayers) < 7) => output = "true"

\* C23 witness: for a cut to four, a player at 0 points with four others all at
\* 6 points has been found safe.
C23_Witness ==
    /\ called
    /\ RoundsRemaining = 1
    /\ input.cut = 4
    /\ Cardinality(OtherPlayers) = 4
    /\ PointsOf(input.player) = 0
    /\ \A p \in OtherPlayers : PointsOf(p) = 6
    /\ output = "true"

\* ------------------------------------------------ one round (single call)
\* both players of the log entry are safe on these standings
BothSafeOn(e, standings) ==
    /\ isSafeForCut(e.p1, e.p2, standings, input.cutSize, input.round, input.numRounds) = "true"
    /\ isSafeForCut(e.p2, e.p1, standings, input.cutSize, input.round, input.numRounds) = "true"

RolledEntries(u) ==
    {matchLog[u][k] : k \in {j \in 1 .. Len(matchLog[u]) :
        matchLog[u][j].p2 # Null /\ ~matchLog[u][j].result.intentional}}

\* C25: when two universes pair the same two players with each other in the
\* same round of a trial and both resolve the pairing by its shared roll, the
\* result is the same in both: a draw in both, or the same winner in both.
C25_SharedRollSameResult ==
    BetweenRounds =>
        \A u, v \in Universes : \A e \in RolledEntries(u) : \A f \in RolledEntries(v) :
            (e.round = f.round /\ {e.p1, e.p2} = {f.p1, f.p2}) =>
                /\ e.rand = f.rand
                /\ e.result.draw = f.result.draw
                /\ e.result.winner = f.result.winner

\* ------------------------------------------------ pairing (single call)
\* the position (from 1) of player q of the input in the order by points
\* descending, then id ascending
SortedPosition(q) ==
    LET arr == input.playerScores
    IN  1 + Cardinality({r \in DOMAIN arr :
                \/ arr[r].points > arr[q].points
                \/ arr[r].points = arr[q].points /\ arr[r].id < arr[q].id})

\* C27: the pairings of pairPlayers partition the players: every player is in
\* exactly one pairing, and in the order by (points descending, id ascending)
\* the k-th pairing (k from 0) holds the players at positions 2k and 2k + 1 in
\* that order (the last one alone with a bye when the count is odd), so the
\* first player of a pairing never has fewer points than the second.
C27_PairingsPartitionInOrder ==
    called =>
        LET arr == input.playerScores
        IN  /\ \A q \in DOMAIN arr :
                  Cardinality({x \in (1 .. Len(output)) \X {1, 2} : output[x[1]][x[2]] = q}) = 1
            /\ \A k \in 1 .. Len(output) :
                  /\ output[k][1] \in DOMAIN arr
                  /\ SortedPosition(output[k][1]) = 2 * k - 1
                  /\ IF 2 * k <= Length(arr)
                     THEN /\ output[k][2] \in DOMAIN arr
                          /\ SortedPosition(output[k][2]) = 2 * k
                          /\ arr[output[k][1]].points >= arr[output[k][2]].points
                     ELSE output[k][2] = Null

\* C27 witness: five players, the first pairing made of two players who are
\* not neighbours in the array, the first of them later in the array and with
\* more points than the second, and a bye.
C27_Witness ==
    /\ called
    /\ Length(input.playerScores) = 5
    /\ output[1][1] > output[1][2] + 1
    /\ input.playerScores[output[1][1]].points > input.playerScores[output[1][2]].points
    /\ output[3][2] = Null

\* ------------------------------------------------ player state (batch)
\* all players of the array have no points, no results and no opponents
Zeroed(arr) ==
    \A j \in DOMAIN arr :
        Core(arr[j]) = [points |-> 0, wins |-> 0, losses |-> 0, draws |-> 0,
                        opponents |-> <<>>]

\* the array holds the same points, wins, losses, draws and opponents
SameCore(a, b) ==
    /\ DOMAIN a = DOMAIN b
    /\ \A j \in DOMAIN a : Core(a[j]) = Core(b[j])

\* C28: the universes of a trial share no player state: a processRound of one
\* universe leaves every player of the other universes unchanged, the ranking
\* changes no points, wins, losses, draws or opponents, and every universe
\* starts each trial with all players at zero and with empty opponents lists,
\* whatever the trial before did.
C28_UniversesShareNoState ==
    [][/\ \A u \in Universes :
             pc = u => \A v \in Universes \ {u} : players'[v] = players[v]
       /\ pc = "rank" /\ pc' = "done" =>
             \A v \in Universes : SameCore(players'[v], players[v])
       /\ pc = "rank" /\ pc' = "pair" =>
             \A v \in AnalysedUniverses :
                 /\ Length(players'[v]) = config.numPlayers
                 /\ Zeroed(players'[v])]_vars

\* C28 witness: in the first round of the second trial the no-ID universe has
\* played its round and the top-4 universe, next to play, still has all its
\* players at zero; the first trial ended with points in every universe.
C28_Witness ==
    /\ sim = 2
    /\ round = 1
    /\ pc = "id4"
    /\ ~Zeroed(players["standard"])
    /\ Zeroed(players["id4"])
    /\ Zeroed(players["id8"])
    /\ \A u \in Universes : finalResults[u][1][1].points > 0

\* the rounds of the trial that universe u has completed
CompletedRounds(u) ==
    IF pc \in {"rank", "done"} THEN round
    ELSE IF pc = "pair" THEN round - 1
    ELSE IF pc = "id4" /\ u = "standard" THEN round
    ELSE IF pc = "id8" /\ u \in {"standard", "id4"} THEN round
    ELSE round - 1

\* C29: after r completed rounds of a trial every player of every universe has
\* wins + losses + draws = r (a bye counts as a win) and 0 <= points <= 3 * r;
\* the trial is ranked after exactly numRounds rounds, and so are the rows of
\* the standings of every trial.
C29_GamesEqualRounds ==
    /\ \A u \in AnalysedUniverses : \A j \in DOMAIN players[u] :
          /\ CompletedRounds(u) \in 0 .. config.numRounds
          /\ Games(players[u][j]) = CompletedRounds(u)
          /\ players[u][j].points >= 0
          /\ players[u][j].points <= 3 * CompletedRounds(u)
    /\ pc \in {"rank", "done"} => round = config.numRounds
    /\ \A u \in AnalysedUniverses : \A t \in 1 .. Len(finalResults[u]) :
          \A k \in 1 .. Len(finalResults[u][t]) :
              Games(finalResults[u][t][k]) = config.numRounds

\* C29 witness: a finished trial of three players and four rounds with a
\* player at 12 points (four wins, byes among them) and a player who has lost.
C29_Witness ==
    /\ pc = "done"
    /\ config.numRounds = 4
    /\ config.numPlayers = 3
    /\ \E j \in DOMAIN players["standard"] :
          /\ players["standard"][j].points = 12
          /\ Len(players["standard"][j].opponents) < 4
    /\ \E j \in DOMAIN players["standard"] : players["standard"][j].losses >= 1

\* the player with id i is at position i of the array
PositionIsId(arr) == \A i \in DOMAIN arr : arr[i].id = i

\* the arrays differ in opponentWinPercentage at most
SameButTiebreaker(a, b) ==
    /\ DOMAIN a = DOMAIN b
    /\ \A i \in DOMAIN a :
          [a[i] EXCEPT !.opponentWinPercentage = b[i].opponentWinPercentage] = b[i]

\* C30: throughout a trial the array of each universe holds the player with
\* id i at position i: pairPlayers leaves the array as it is, rankPlayers
\* changes opponentWinPercentage only and reorders nothing, and processRound
\* keeps every player in place.
C30_PositionIsId ==
    [][/\ \A u \in AnalysedUniverses :
             /\ DOMAIN players'[u] = 0 .. config.numPlayers - 1
             /\ PositionIsId(players'[u])
       /\ pc = "pair" => players' = players
       /\ pc = "rank" /\ pc' = "done" =>
             \A u \in AnalysedUniverses : SameButTiebreaker(players'[u], players[u])]_vars

\* C30 witness: a batch has ended with standings whose first row is not player
\* 0, and rankPlayers has set a tiebreaker in the array, whose players are
\* where they were.
C30_Witness ==
    /\ pc = "done"
    /\ \E u \in AnalysedUniverses :
          /\ LastResult(u)[1].id # 0
          /\ PositionIsId(players[u])
          /\ \E i \in DOMAIN players[u] : players[u][i].opponentWinPercentage # <<0, 1>>

====
